---- MODULE Spec2Model ----
(***************************************************************************)
(* A model of the yupsh diff command.  The repository holds two            *)
(* implementations of the same command: command.Execute in diff.go (with   *)
(* cooperative cancellation) and command.Executor in command.go (without). *)
(* One run of the command is one behaviour: Init chooses the               *)
(* implementation, the operands, the files' contents and the flags, and    *)
(* the actions follow the code from one cancellation poll to the next.     *)
(*                                                                         *)
(* A line of text is a sequence of one-character strings; a file is a      *)
(* sequence of lines.  An output line is a record whose "kind" is the      *)
(* literal prefix the code's format string prints.                         *)
(***************************************************************************)
EXTENDS Integers, Sequences, FiniteSets, TLC

VARIABLES impl, Positional, flags, fs, cancelled, pc, lines1, lines2,
          stdout, stderr, result, renderer, i, j, lineCount,
          observed, obsLen

vars == <<impl, Positional, flags, fs, cancelled, pc, lines1, lines2,
          stdout, stderr, result, renderer, i, j, lineCount,
          observed, obsLen>>

(***************************************************************************)
(* Bounds of the model and constants of the program.                       *)
(***************************************************************************)
MaxLines == 2

MaxRenderLines == 3

MaxNormLines == 2

MaxWalkLines == 3

PollEvery == 1000

PollEveryInner == 100

DefaultContext == 3

ColumnWidth == 40

Max(a, b) == IF a > b THEN a ELSE b

Min(a, b) == IF a < b THEN a ELSE b

SeqsUpTo(V, n) == UNION {[1..k -> V] : k \in 0..n}

(***************************************************************************)
(* Strings: strings.ToLower, strings.Fields, strings.Join and              *)
(* strings.TrimSpace on lines over the letters a, b, A, B and the space.   *)
(***************************************************************************)
Lower(c) == CASE c = "A" -> "a" [] c = "B" -> "b" [] OTHER -> c

IsSpace(c) == c \in {" ", "\t"}

ToLower(line) == [k \in 1..Len(line) |-> Lower(line[k])]

RECURSIVE FieldsFrom(_, _, _, _)
FieldsFrom(line, k, word, acc) ==
    IF k > Len(line)
    THEN IF word = <<>> THEN acc ELSE Append(acc, word)
    ELSE IF IsSpace(line[k])
         THEN FieldsFrom(line, k + 1, <<>>,
                         IF word = <<>> THEN acc ELSE Append(acc, word))
         ELSE FieldsFrom(line, k + 1, Append(word, line[k]), acc)

Fields(line) == FieldsFrom(line, 1, <<>>, <<>>)

RECURSIVE Join(_, _)
Join(fields, sep) ==
    IF fields = <<>> THEN <<>>
    ELSE IF Len(fields) = 1 THEN fields[1]
    ELSE fields[1] \o sep \o Join(Tail(fields), sep)

RECURSIVE TrimLeft(_)
TrimLeft(line) ==
    IF line # <<>> /\ IsSpace(line[1]) THEN TrimLeft(Tail(line)) ELSE line

RECURSIVE TrimRight(_)
TrimRight(line) ==
    IF line # <<>> /\ IsSpace(line[Len(line)])
    THEN TrimRight(SubSeq(line, 1, Len(line) - 1)) ELSE line

TrimSpace(line) == TrimRight(TrimLeft(line))

(***************************************************************************)
(* Output lines.                                                           *)
(***************************************************************************)
Diag(name, reason) == [kind |-> "diff:", name |-> name, reason |-> reason]

Usage(msg) == [kind |-> "usage", msg |-> msg]

MissingOperand(operands) ==
    [kind |-> "diff: missing operand after", operands |-> operands]

BriefLine(n1, n2) == [kind |-> "Files", name1 |-> n1, name2 |-> n2]

Text(kind, line) == [kind |-> kind, text |-> line]

Separator == [kind |-> "---"]

Range(n) == <<n, n>>

Cmd(a, op, b) == [kind |-> "cmd", a |-> a, op |-> op, b |-> b]

Header(kind, name) == [kind |-> kind, name |-> name]

Hunk(sa, la, sb, lb) == [kind |-> "@@", sa |-> sa, la |-> la, sb |-> sb, lb |-> lb]

PadRight(line) ==
    IF Len(line) >= ColumnWidth THEN line
    ELSE line \o [k \in 1..(ColumnWidth - Len(line)) |-> " "]

Row(l1, gutter, l2) ==
    [kind |-> "row", left |-> PadRight(l1), gutter |-> gutter, right |-> PadRight(l2)]

(***************************************************************************)
(* Flags and the constructor Diff, which sets the default widths.          *)
(***************************************************************************)
UserWidths == {0, 1}

UserFlags ==
    [Unified : BOOLEAN, UnifiedContext : UserWidths,
     ContextDiff : BOOLEAN, ContextLines : {0},
     Brief : BOOLEAN, IgnoreCase : BOOLEAN, IgnoreWhitespace : BOOLEAN,
     SideBySide : BOOLEAN]

Diff(u) ==
    [u EXCEPT
       !.UnifiedContext = IF u.UnifiedContext = 0 /\ u.Unified
                          THEN DefaultContext ELSE u.UnifiedContext,
       !.ContextLines = IF u.ContextLines = 0 /\ u.ContextDiff
                        THEN DefaultContext ELSE u.ContextLines]

NoFlags ==
    [Unified |-> FALSE, UnifiedContext |-> 0, ContextDiff |-> FALSE,
     ContextLines |-> 0, Brief |-> FALSE, IgnoreCase |-> FALSE,
     IgnoreWhitespace |-> FALSE, SideBySide |-> FALSE]

(***************************************************************************)
(* The files and the operands.                                             *)
(***************************************************************************)
Names == {"A.txt", "B.txt"}

OperandLists ==
    { <<"A.txt", "B.txt">>, <<"A.txt", "A.txt">>,
      <<"A.txt">>, <<"A.txt", "B.txt", "A.txt">> }

Ok(ls) == [status |-> "ok", lines |-> ls]

OpenFail == [status |-> "openfail", lines |-> <<>>]

ReadFail == [status |-> "readfail", lines |-> <<>>]

Reason(content) ==
    IF content.status = "openfail" THEN "no such file or directory"
    ELSE "bufio.Scanner: token too long"

ExecVocab == { <<"a">>, <<" ", "A">> }

RenderVocab == { <<"a">>, <<"b">>, <<>> }

NormVocab ==
    { <<"a", " ", "b">>, <<"a", " ", " ", "b">>, <<" ", "a", " ", "b">>,
      <<"A", " ", "b">>, <<"a", " ", "B", " ">>, <<"a", "b">> }

ExecContents ==
    {Ok(ls) : ls \in SeqsUpTo(ExecVocab, MaxLines)} \cup {OpenFail, ReadFail}

RenderContents == {Ok(ls) : ls \in SeqsUpTo(RenderVocab, MaxRenderLines)}

NormContents == {Ok(ls) : ls \in SeqsUpTo(NormVocab, MaxNormLines)}

File1 == fs[Positional[1]]

File2 == fs[Positional[2]]

(***************************************************************************)
(* diff.go: the pure parts of command.Execute.  The argument "done" is the *)
(* state of the context while the loop runs: CheckContextCancellation      *)
(* returns an error exactly when the context is cancelled.                 *)
(***************************************************************************)
CheckContextCancellation(done) == done

\* a readFile that forgets to return the error of os.Open
readFileSwallowsOpenError(done, content) ==
    IF content.status = "openfail"
    THEN [lines |-> <<>>, err |-> "nil"]
    ELSE IF CheckContextCancellation(done)
    THEN [lines |-> <<>>, err |-> "context canceled"]
    ELSE IF content.status = "readfail"
    THEN [lines |-> content.lines, err |-> Reason(content)]
    ELSE [lines |-> content.lines, err |-> "nil"]

readFile(done, content) ==
    IF content.status = "openfail"
    THEN [lines |-> <<>>, err |-> Reason(content)]
    ELSE IF CheckContextCancellation(done)
    THEN \* ScanWithContext stops the scan; the lines read so far are returned
         \* with the context's error, and Execute drops them
         [lines |-> <<>>, err |-> "context canceled"]
    ELSE IF content.status = "readfail"
    THEN [lines |-> content.lines, err |-> Reason(content)]
    ELSE [lines |-> content.lines, err |-> "nil"]

RECURSIVE normalizeCaseLoop(_, _, _, _)
normalizeCaseLoop(done, lines, k, normalized) ==
    IF k >= Len(lines) THEN normalized
    ELSE IF k % PollEvery = 0 /\ CheckContextCancellation(done)
    THEN SubSeq(normalized, 1, k)
    ELSE normalizeCaseLoop(done, lines, k + 1,
                           [normalized EXCEPT ![k + 1] = ToLower(lines[k + 1])])

normalizeCase(done, lines) ==
    normalizeCaseLoop(done, lines, 0, [k \in 1..Len(lines) |-> <<>>])

RECURSIVE normalizeWhitespaceLoop(_, _, _, _)
normalizeWhitespaceLoop(done, lines, k, normalized) ==
    IF k >= Len(lines) THEN normalized
    ELSE IF k % PollEvery = 0 /\ CheckContextCancellation(done)
    THEN SubSeq(normalized, 1, k)
    ELSE normalizeWhitespaceLoop(done, lines, k + 1,
             [normalized EXCEPT ![k + 1] = Join(Fields(lines[k + 1]), <<" ">>)])

normalizeWhitespace(done, lines) ==
    normalizeWhitespaceLoop(done, lines, 0, [k \in 1..Len(lines) |-> <<>>])

\* linesEqual, with "polled" telling whether a poll inside it saw the cancellation
RECURSIVE linesEqualLoop(_, _, _, _)
linesEqualLoop(done, l1, l2, k) ==
    IF k >= Len(l1) THEN [eq |-> TRUE, polled |-> FALSE]
    ELSE IF k % PollEvery = 0 /\ CheckContextCancellation(done)
    THEN [eq |-> FALSE, polled |-> TRUE]
    ELSE IF l1[k + 1] # l2[k + 1] THEN [eq |-> FALSE, polled |-> FALSE]
    ELSE linesEqualLoop(done, l1, l2, k + 1)

\* a linesEqual whose length test is inverted
linesEqualLengthInverted(done, l1, l2) ==
    IF Len(l1) = Len(l2) THEN [eq |-> FALSE, polled |-> FALSE]
    ELSE [eq |-> TRUE, polled |-> FALSE]

linesEqual(done, l1, l2) ==
    IF Len(l1) # Len(l2) THEN [eq |-> FALSE, polled |-> FALSE]
    ELSE linesEqualLoop(done, l1, l2, 0)

\* what Execute does with the answer of linesEqual (diff.go:89-100)
\* an Execute that lets a format flag win over brief
afterCompareFormatFirst(eq, f) ==
    IF eq THEN "identical"
    ELSE IF f.Brief /\ ~f.Unified THEN "brief" ELSE "diff"

afterCompare(eq, f) ==
    IF eq THEN "identical" ELSE IF f.Brief THEN "brief" ELSE "diff"

generateDiff(f) ==
    IF f.Unified \/ f.UnifiedContext > 0 THEN "unified"
    ELSE IF f.SideBySide THEN "side"
    ELSE "normal"

\* the inner loops of generateUnifiedDiff: print lines[k+1..] with the prefix
\* "kind", polling every PollEveryInner lines
\* an inner loop that walks over the last remaining line without printing it
RECURSIVE unifiedTailDropsLast(_, _, _, _, _)
unifiedTailDropsLast(done, kind, lines, k, out) ==
    IF k >= Len(lines) THEN [out |-> out, k |-> k, err |-> FALSE]
    ELSE IF k % PollEveryInner = 0 /\ CheckContextCancellation(done)
    THEN [out |-> out, k |-> k, err |-> TRUE]
    ELSE unifiedTailDropsLast(done, kind, lines, k + 1,
             IF k + 1 = Len(lines) THEN out
             ELSE Append(out, Text(kind, lines[k + 1])))

RECURSIVE unifiedTail(_, _, _, _, _)
unifiedTail(done, kind, lines, k, out) ==
    IF k >= Len(lines) THEN [out |-> out, k |-> k, err |-> FALSE]
    ELSE IF k % PollEveryInner = 0 /\ CheckContextCancellation(done)
    THEN [out |-> out, k |-> k, err |-> TRUE]
    ELSE unifiedTail(done, kind, lines, k + 1,
                     Append(out, Text(kind, lines[k + 1])))

(***************************************************************************)
(* The actions of command.Execute (diff.go), one per stretch of code       *)
(* between two polls of the context.                                       *)
(***************************************************************************)
Finish(res) == pc' = "done" /\ result' = res

Observe == observed' = TRUE /\ obsLen' = IF observed THEN obsLen ELSE Len(stdout)

NoObserve == UNCHANGED <<observed, obsLen>>

Inputs == <<impl, Positional, flags, fs>>

\* the context is cancelled from outside, at any moment of the run
Cancel ==
    /\ pc # "done"
    /\ ~cancelled
    /\ cancelled' = TRUE
    /\ UNCHANGED <<Inputs, pc, lines1, lines2, stdout, stderr, result,
                   renderer, i, j, lineCount, observed, obsLen>>

ExecuteStart ==
    /\ impl = "diff"
    /\ pc = "start"
    /\ IF CheckContextCancellation(cancelled)
       THEN Finish("cancelled") /\ Observe /\ UNCHANGED stderr
       ELSE IF Len(Positional) # 2
       THEN /\ stderr' = Append(stderr, Usage("diff: need exactly 2 files"))
            /\ Finish("usage") /\ NoObserve
       ELSE pc' = "read1" /\ UNCHANGED <<stderr, result>> /\ NoObserve
    /\ UNCHANGED <<Inputs, cancelled, lines1, lines2, stdout, renderer,
                   i, j, lineCount>>

ExecuteRead ==
    /\ impl = "diff"
    /\ pc \in {"read1", "read2"}
    /\ LET n == IF pc = "read1" THEN 1 ELSE 2
           r == readFile(cancelled, fs[Positional[n]])
       IN IF r.err # "nil"
          THEN /\ stderr' = Append(stderr, Diag(Positional[n], r.err))
               /\ Finish(IF r.err = "context canceled" THEN "cancelled" ELSE "ioerr")
               /\ IF r.err = "context canceled" THEN Observe ELSE NoObserve
               /\ UNCHANGED <<lines1, lines2>>
          ELSE /\ lines1' = IF n = 1 THEN r.lines ELSE lines1
               /\ lines2' = IF n = 2 THEN r.lines ELSE lines2
               /\ pc' = IF n = 1 THEN "chk1" ELSE "chk2"
               /\ UNCHANGED <<stderr, result>> /\ NoObserve
    /\ UNCHANGED <<Inputs, cancelled, stdout, renderer, i, j, lineCount>>

AfterCase(f) == IF f.IgnoreWhitespace THEN "ws1" ELSE "chk3"

AfterRead(f) == IF f.IgnoreCase THEN "case1" ELSE AfterCase(f)

\* the polls after the first read, after the second read and after normalization
ExecuteCheck ==
    /\ impl = "diff"
    /\ pc \in {"chk1", "chk2", "chk3"}
    /\ IF CheckContextCancellation(cancelled)
       THEN Finish("cancelled") /\ Observe
       ELSE /\ pc' = CASE pc = "chk1" -> "read2"
                       [] pc = "chk2" -> AfterRead(flags)
                       [] pc = "chk3" -> "equal"
            /\ UNCHANGED result /\ NoObserve
    /\ UNCHANGED <<Inputs, cancelled, lines1, lines2, stdout, stderr,
                   renderer, i, j, lineCount>>

ExecuteNormalizeCase ==
    /\ impl = "diff"
    /\ pc \in {"case1", "case2"}
    /\ IF pc = "case1"
       THEN /\ lines1' = normalizeCase(cancelled, lines1)
            /\ IF Len(lines1') < Len(lines1) THEN Observe ELSE NoObserve
            /\ pc' = "case2" /\ UNCHANGED lines2
       ELSE /\ lines2' = normalizeCase(cancelled, lines2)
            /\ IF Len(lines2') < Len(lines2) THEN Observe ELSE NoObserve
            /\ pc' = AfterCase(flags) /\ UNCHANGED lines1
    /\ UNCHANGED <<Inputs, cancelled, stdout, stderr, result, renderer,
                   i, j, lineCount>>

ExecuteNormalizeWhitespace ==
    /\ impl = "diff"
    /\ pc \in {"ws1", "ws2"}
    /\ IF pc = "ws1"
       THEN /\ lines1' = normalizeWhitespace(cancelled, lines1)
            /\ IF Len(lines1') < Len(lines1) THEN Observe ELSE NoObserve
            /\ pc' = "ws2" /\ UNCHANGED lines2
       ELSE /\ lines2' = normalizeWhitespace(cancelled, lines2)
            /\ IF Len(lines2') < Len(lines2) THEN Observe ELSE NoObserve
            /\ pc' = "chk3" /\ UNCHANGED lines1
    /\ UNCHANGED <<Inputs, cancelled, stdout, stderr, result, renderer,
                   i, j, lineCount>>

\* linesEqual, the brief report, and the entry of the chosen renderer
ExecuteCompare ==
    /\ impl = "diff"
    /\ pc = "equal"
    /\ LET r == linesEqual(cancelled, lines1, lines2)
           what == afterCompare(r.eq, flags)
       IN /\ IF r.polled THEN Observe ELSE NoObserve
          /\ CASE what = "identical" ->
                    Finish("ok") /\ UNCHANGED <<stdout, renderer>>
               [] what = "brief" ->
                    /\ stdout' = Append(stdout, BriefLine(Positional[1], Positional[2]))
                    /\ Finish("ok") /\ UNCHANGED renderer
               [] what = "diff" ->
                    /\ renderer' = generateDiff(flags)
                    /\ pc' = renderer'
                    /\ stdout' = IF renderer' = "unified"
                                 THEN stdout \o <<Header("---", Positional[1]),
                                                  Header("+++", Positional[2])>>
                                 ELSE stdout
                    /\ UNCHANGED result
    /\ UNCHANGED <<Inputs, cancelled, lines1, lines2, stderr, i, j, lineCount>>

\* one iteration of the loop of generateNormalDiff
generateNormalDiff ==
    /\ impl = "diff"
    /\ pc = "normal"
    /\ IF ~(i < Len(lines1) \/ j < Len(lines2))
       THEN Finish("ok") /\ NoObserve /\ UNCHANGED <<stdout, i, j, lineCount>>
       ELSE /\ lineCount' = lineCount + 1
            /\ IF lineCount' % PollEvery = 0 /\ CheckContextCancellation(cancelled)
               THEN Finish("cancelled") /\ Observe /\ UNCHANGED <<stdout, i, j>>
               ELSE /\ NoObserve /\ UNCHANGED <<pc, result>>
                    /\ IF i >= Len(lines1)
                       THEN /\ stdout' = stdout \o
                                  << Cmd(Range(i), "a", Range(j + 1)),
                                     Text(">", lines2[j + 1]) >>
                            /\ j' = j + 1 /\ i' = i
                       ELSE IF j >= Len(lines2)
                       THEN /\ stdout' = stdout \o
                                  << Cmd(Range(i + 1), "d", Range(j)),
                                     Text("<", lines1[i + 1]) >>
                            /\ i' = i + 1 /\ j' = j
                       ELSE IF lines1[i + 1] = lines2[j + 1]
                       THEN i' = i + 1 /\ j' = j + 1 /\ UNCHANGED stdout
                       ELSE /\ stdout' = stdout \o
                                  << Cmd(Range(i + 1), "c", Range(j + 1)),
                                     Text("<", lines1[i + 1]),
                                     Separator,
                                     Text(">", lines2[j + 1]) >>
                            /\ i' = i + 1 /\ j' = j + 1
    /\ UNCHANGED <<Inputs, cancelled, lines1, lines2, stderr, renderer>>

\* one iteration of the outer loop of generateUnifiedDiff
generateUnifiedDiff ==
    /\ impl = "diff"
    /\ pc = "unified"
    /\ IF ~(i < Len(lines1) \/ j < Len(lines2))
       THEN Finish("ok") /\ NoObserve /\ UNCHANGED <<stdout, i, j, lineCount>>
       ELSE /\ lineCount' = lineCount + 1
            /\ IF lineCount' % PollEvery = 0 /\ CheckContextCancellation(cancelled)
               THEN Finish("cancelled") /\ Observe /\ UNCHANGED <<stdout, i, j>>
               ELSE IF i >= Len(lines1)
               THEN LET t == unifiedTail(cancelled, "+", lines2, j,
                                 Append(stdout, Hunk(i + 1, 0, j + 1, Len(lines2) - j)))
                    IN /\ stdout' = t.out /\ j' = t.k /\ i' = i
                       /\ IF t.err
                          THEN /\ Finish("cancelled")
                               /\ observed' = TRUE
                               /\ obsLen' = IF observed THEN obsLen ELSE Len(t.out)
                          ELSE NoObserve /\ UNCHANGED <<pc, result>>
               ELSE IF j >= Len(lines2)
               THEN LET t == unifiedTail(cancelled, "-", lines1, i,
                                 Append(stdout, Hunk(i + 1, Len(lines1) - i, j + 1, 0)))
                    IN /\ stdout' = t.out /\ i' = t.k /\ j' = j
                       /\ IF t.err
                          THEN /\ Finish("cancelled")
                               /\ observed' = TRUE
                               /\ obsLen' = IF observed THEN obsLen ELSE Len(t.out)
                          ELSE NoObserve /\ UNCHANGED <<pc, result>>
               ELSE IF lines1[i + 1] = lines2[j + 1]
               THEN /\ i' = i + 1 /\ j' = j + 1
                    /\ NoObserve /\ UNCHANGED <<pc, result, stdout>>
               ELSE /\ stdout' = stdout \o
                          << Hunk(i + 1, 1, j + 1, 1),
                             Text("-", lines1[i + 1]),
                             Text("+", lines2[j + 1]) >>
                    /\ i' = i + 1 /\ j' = j + 1
                    /\ NoObserve /\ UNCHANGED <<pc, result>>
    /\ UNCHANGED <<Inputs, cancelled, lines1, lines2, stderr, renderer>>

\* one iteration of the loop of generateSideBySideDiff
generateSideBySideDiff ==
    /\ impl = "diff"
    /\ pc = "side"
    /\ IF ~(i < Max(Len(lines1), Len(lines2)))
       THEN Finish("ok") /\ NoObserve /\ UNCHANGED <<stdout, i>>
       ELSE IF i % PollEvery = 0 /\ CheckContextCancellation(cancelled)
       THEN Finish("cancelled") /\ Observe /\ UNCHANGED <<stdout, i>>
       ELSE LET line1 == IF i < Len(lines1) THEN lines1[i + 1] ELSE <<>>
                line2 == IF i < Len(lines2) THEN lines2[i + 1] ELSE <<>>
            IN /\ stdout' = Append(stdout,
                      Row(line1, IF line1 = line2 THEN "   " ELSE " | ", line2))
               /\ i' = i + 1
               /\ NoObserve /\ UNCHANGED <<pc, result>>
    /\ UNCHANGED <<Inputs, cancelled, lines1, lines2, stderr, renderer,
                   j, lineCount>>

(***************************************************************************)
(* command.go: command.Executor and its helpers.  It never polls the       *)
(* context, so the whole of it is one action.                              *)
(***************************************************************************)
readFileLines(content) ==
    IF content.status = "ok"
    THEN [lines |-> content.lines, err |-> "nil"]
    ELSE [lines |-> <<>>, err |-> Reason(content)]

areIdenticalLine(a, b, ignoreCase, ignoreWhitespace) ==
    LET t1 == IF ignoreWhitespace THEN TrimSpace(a) ELSE a
        t2 == IF ignoreWhitespace THEN TrimSpace(b) ELSE b
        c1 == IF ignoreCase THEN ToLower(t1) ELSE t1
        c2 == IF ignoreCase THEN ToLower(t2) ELSE t2
    IN c1 = c2

areIdentical(l1, l2, ignoreCase, ignoreWhitespace) ==
    /\ Len(l1) = Len(l2)
    /\ \A k \in 1..Len(l1) :
          areIdenticalLine(l1[k], l2[k], ignoreCase, ignoreWhitespace)

\* the choice of the output function (command.go:57-70)
executorFormat(f) ==
    IF f.Unified THEN "unified"
    ELSE IF f.ContextDiff THEN "context"
    ELSE "normal"

RECURSIVE outputNormalDiffLoop(_, _, _, _)
outputNormalDiffLoop(l1, l2, k, out) ==
    IF k >= Max(Len(l1), Len(l2)) THEN out
    ELSE outputNormalDiffLoop(l1, l2, k + 1,
           IF k >= Len(l1)
           THEN out \o << Cmd(Range(Len(l1)), "a", Range(k + 1)),
                          Text(">", l2[k + 1]) >>
           ELSE IF k >= Len(l2)
           THEN out \o << Cmd(Range(k + 1), "d", Range(Len(l2))),
                          Text("<", l1[k + 1]) >>
           ELSE IF l1[k + 1] # l2[k + 1]
           THEN out \o << Cmd(Range(k + 1), "c", Range(k + 1)),
                          Text("<", l1[k + 1]),
                          Separator,
                          Text(">", l2[k + 1]) >>
           ELSE out)

outputNormalDiff(l1, l2) == outputNormalDiffLoop(l1, l2, 0, <<>>)

RECURSIVE outputUnifiedDiffLoop(_, _, _, _)
outputUnifiedDiffLoop(l1, l2, k, out) ==
    IF ~(k < Len(l1) \/ k < Len(l2)) THEN out
    ELSE outputUnifiedDiffLoop(l1, l2, k + 1,
           IF k >= Len(l1) THEN Append(out, Text("+", l2[k + 1]))
           ELSE IF k >= Len(l2) THEN Append(out, Text("-", l1[k + 1]))
           ELSE IF l1[k + 1] # l2[k + 1]
           THEN out \o << Text("-", l1[k + 1]), Text("+", l2[k + 1]) >>
           ELSE Append(out, Text(" ", l1[k + 1])))

outputUnifiedDiff(file1, file2, l1, l2, context) ==
    outputUnifiedDiffLoop(l1, l2, 0,
        << Header("---", file1), Header("+++", file2) >>)

RECURSIVE outputContextDiffLoop(_, _, _, _)
outputContextDiffLoop(l1, l2, k, out) ==
    IF ~(k < Len(l1) \/ k < Len(l2)) THEN out
    ELSE outputContextDiffLoop(l1, l2, k + 1,
           IF k >= Len(l1) THEN Append(out, Text("+ ", l2[k + 1]))
           ELSE IF k >= Len(l2) THEN Append(out, Text("- ", l1[k + 1]))
           ELSE IF l1[k + 1] # l2[k + 1]
           THEN out \o << Text("! ", l1[k + 1]), Text("! ", l2[k + 1]) >>
           ELSE Append(out, Text("  ", l1[k + 1])))

outputContextDiff(file1, file2, l1, l2, context) ==
    outputContextDiffLoop(l1, l2, 0,
        << Header("***", file1), Header("---", file2) >>)

Executor ==
    /\ impl = "command"
    /\ pc = "start"
    /\ pc' = "done"
    /\ IF Len(Positional) < 2
       THEN /\ stderr' = Append(stderr, MissingOperand(Positional))
            /\ result' = "usage"
            /\ UNCHANGED <<lines1, lines2, stdout, renderer>>
       ELSE LET file1Path == Positional[1]
                file2Path == Positional[2]
                r1 == readFileLines(fs[file1Path])
                r2 == readFileLines(fs[file2Path])
            IN IF r1.err # "nil"
               THEN /\ stderr' = Append(stderr, Diag(file1Path, r1.err))
                    /\ result' = "ioerr"
                    /\ UNCHANGED <<lines1, lines2, stdout, renderer>>
               ELSE IF r2.err # "nil"
               THEN /\ stderr' = Append(stderr, Diag(file2Path, r2.err))
                    /\ result' = "ioerr"
                    /\ lines1' = r1.lines
                    /\ UNCHANGED <<lines2, stdout, renderer>>
               ELSE /\ lines1' = r1.lines
                    /\ lines2' = r2.lines
                    /\ result' = "ok"
                    /\ UNCHANGED stderr
                    /\ LET what == afterCompare(
                                     areIdentical(r1.lines, r2.lines,
                                                  flags.IgnoreCase,
                                                  flags.IgnoreWhitespace), flags)
                       IN CASE what = "identical" -> UNCHANGED <<stdout, renderer>>
                            [] what = "brief" ->
                                 /\ stdout' = Append(stdout,
                                                  BriefLine(file1Path, file2Path))
                                 /\ UNCHANGED renderer
                            [] what = "diff" ->
                                 /\ renderer' = executorFormat(flags)
                                 /\ stdout' = stdout \o
                                      CASE renderer' = "unified" ->
                                             outputUnifiedDiff(file1Path, file2Path,
                                                 r1.lines, r2.lines,
                                                 flags.UnifiedContext)
                                        [] renderer' = "context" ->
                                             outputContextDiff(file1Path, file2Path,
                                                 r1.lines, r2.lines,
                                                 flags.ContextLines)
                                        [] renderer' = "normal" ->
                                             outputNormalDiff(r1.lines, r2.lines)
    /\ UNCHANGED <<Inputs, cancelled, i, j, lineCount, observed, obsLen>>

(***************************************************************************)
(* The specifications.  They differ in the inputs Init draws: Spec runs    *)
(* every configuration over small files that may fail to load, SpecRender  *)
(* the renderers over longer files, SpecNorm the normalizations over lines *)
(* that differ in case and whitespace.                                     *)
(***************************************************************************)
AllFlags == {Diff(u) : u \in UserFlags}

RenderFlags ==
    {f \in AllFlags : ~f.Brief /\ f.IgnoreCase = f.IgnoreWhitespace
                      /\ (f.IgnoreCase => ~f.ContextDiff /\ f.UnifiedContext # 1)}

NormFlags ==
    {f \in AllFlags : ~f.Brief /\ f.UnifiedContext # 1
                      /\ (f.ContextDiff => ~f.Unified /\ ~f.SideBySide)}

InitWith(Contents, FlagSet) ==
    /\ impl \in {"diff", "command"}
    /\ Positional \in OperandLists
    /\ flags \in FlagSet
    /\ fs \in [Names -> Contents]
    /\ "B.txt" \notin {Positional[k] : k \in 1..Len(Positional)}
          => fs["B.txt"] = fs["A.txt"]
    /\ Len(Positional) # 2 => flags = Diff(NoFlags)
    /\ cancelled = FALSE
    /\ pc = "start"
    /\ lines1 = <<>>
    /\ lines2 = <<>>
    /\ stdout = <<>>
    /\ stderr = <<>>
    /\ result = "none"
    /\ renderer = "none"
    /\ i = 0
    /\ j = 0
    /\ lineCount = 0
    /\ observed = FALSE
    /\ obsLen = 0

Init == InitWith(ExecContents, AllFlags)

InitRender == InitWith(RenderContents, RenderFlags)

InitNorm == InitWith(NormContents, NormFlags)

Next ==
    \/ Cancel
    \/ ExecuteStart
    \/ ExecuteRead
    \/ ExecuteCheck
    \/ ExecuteNormalizeCase
    \/ ExecuteNormalizeWhitespace
    \/ ExecuteCompare
    \/ generateNormalDiff
    \/ generateUnifiedDiff
    \/ generateSideBySideDiff
    \/ Executor

Spec == Init /\ [][Next]_vars

SpecRender == InitRender /\ [][Next]_vars

SpecNorm == InitNorm /\ [][Next]_vars

(***************************************************************************)
(* What the claims speak of.                                               *)
(***************************************************************************)
\* the run compares its first two operands
TwoOperands ==
    /\ Len(Positional) >= 2
    /\ impl = "diff" => Len(Positional) = 2

Loaded == File1.status = "ok" /\ File2.status = "ok"

\* the normalization the implementation in use applies to a line before comparing
ActiveNormalize(line) ==
    LET folded == IF flags.IgnoreCase THEN ToLower(line) ELSE line
    IN IF ~flags.IgnoreWhitespace THEN folded
       ELSE IF impl = "diff" THEN Join(Fields(folded), <<" ">>)
       ELSE TrimSpace(folded)

ActiveView(ls) == [k \in 1..Len(ls) |-> ActiveNormalize(ls[k])]

Unequal == ActiveView(File1.lines) # ActiveView(File2.lines)

Finished == pc = "done" /\ ~cancelled

\* C1: when both operands load to the same sequence and the context is not
\* cancelled, nothing is written to the primary output, whatever the flags,
\* and the run ends in success.
IdenticalSilent ==
    (TwoOperands /\ Loaded /\ File1.lines = File2.lines /\ ~cancelled)
        => /\ stdout = <<>>
           /\ pc = "done" => result = "ok"

IdenticalSilentWitness ==
    /\ Finished /\ impl = "diff" /\ result = "ok" /\ stdout = <<>>
    /\ Positional = <<"A.txt", "A.txt">>
    /\ File1.status = "ok" /\ Len(File1.lines) = MaxLines
    /\ flags.Unified /\ flags.SideBySide /\ flags.IgnoreCase
    /\ flags.IgnoreWhitespace /\ flags.ContextDiff

\* C2: when an operand cannot be opened or read, the primary output stays
\* empty and the run fails; when the context is not cancelled, the failure is
\* the I/O error and the diagnostic stream holds exactly one line,
\* "diff: <path>: <reason>", naming the first operand that failed.
Offending == IF File1.status # "ok" THEN 1 ELSE 2

OperandFailureDiagnosed ==
    (TwoOperands /\ ~Loaded)
        => /\ stdout = <<>>
           /\ pc = "done" => result \in {"ioerr", "cancelled"}
           /\ Finished =>
                /\ result = "ioerr"
                /\ stderr = << Diag(Positional[Offending],
                                    Reason(fs[Positional[Offending]])) >>

OperandFailureWitness ==
    /\ Finished /\ impl = "diff" /\ TwoOperands
    /\ File1.status = "ok" /\ File1.lines # <<>> /\ File2.status = "openfail"
    /\ stderr = << Diag("B.txt", "no such file or directory") >>
    /\ result = "ioerr" /\ stdout = <<>>

\* C3: with brief set and the inputs unequal under the active normalization,
\* the primary output of a run that is not cancelled is exactly the one line
\* "Files <A> and <B> differ" with the operands as given, whatever format
\* flags are set, and no renderer runs.
BriefOneLine ==
    (TwoOperands /\ Loaded /\ flags.Brief /\ Unequal)
        => /\ renderer = "none"
           /\ stdout \in {<<>>, << BriefLine(Positional[1], Positional[2]) >>}
           /\ Finished => stdout = << BriefLine(Positional[1], Positional[2]) >>

BriefOneLineWitness ==
    /\ Finished /\ impl = "diff" /\ flags.Brief /\ Unequal
    /\ flags.Unified /\ flags.SideBySide /\ flags.ContextDiff
    /\ Len(File1.lines) = MaxLines /\ Len(File2.lines) = MaxLines
    /\ \A k \in 1..MaxLines : ActiveNormalize(File1.lines[k]) # ActiveNormalize(File2.lines[k])
    /\ stdout = << BriefLine("A.txt", "B.txt") >>

\* two lines that differ at most in what the flags f tell to ignore: letter
\* case, the lengths of whitespace runs and leading or trailing whitespace
SameModulo(f, a, b) ==
    LET ca == IF f.IgnoreCase THEN ToLower(a) ELSE a
        cb == IF f.IgnoreCase THEN ToLower(b) ELSE b
    IN IF f.IgnoreWhitespace THEN Fields(ca) = Fields(cb) ELSE ca = cb

SameModuloFlags ==
    /\ Len(File1.lines) = Len(File2.lines)
    /\ \A k \in 1..Len(File1.lines) :
          SameModulo(flags, File1.lines[k], File2.lines[k])

\* C4: with ignoreCase and/or ignoreWhitespace set, two inputs whose
\* corresponding lines differ only in case and/or in whitespace (run lengths,
\* leading, trailing) are judged equal: the run writes nothing and succeeds.
IgnoreFlagsHonoured ==
    (TwoOperands /\ Loaded /\ (flags.IgnoreCase \/ flags.IgnoreWhitespace)
       /\ SameModuloFlags /\ ~cancelled)
        => /\ stdout = <<>>
           /\ pc = "done" => result = "ok"

\* C5: once a poll has seen the cancellation, nothing more is written to the
\* primary output and the run ends with the cancellation error.
CancellationStopsOutput ==
    observed => /\ Len(stdout) = obsLen
                /\ pc = "done" => result = "cancelled"

\* the renderer the flags select by the order unified > side-by-side >
\* context > normal
RendererByPriority(f) ==
    IF f.Unified THEN "unified"
    ELSE IF f.SideBySide THEN "side"
    ELSE IF f.ContextDiff THEN "context"
    ELSE "normal"

\* C6: for unequal inputs with brief unset, the renderer that produces the
\* output is the one the boolean flags select by the order unified >
\* side-by-side > context > normal, whatever the other fields hold.
RendererFollowsPriority ==
    (TwoOperands /\ Loaded /\ Unequal /\ ~flags.Brief /\ Finished)
        => renderer = RendererByPriority(flags)

(***************************************************************************)
(* The renderers' claims.  lines1 and lines2 are the sequences the         *)
(* renderer was given; position k is Equal when both have a line k and the *)
(* two lines are equal.                                                    *)
(***************************************************************************)
Longest == Max(Len(lines1), Len(lines2))

EqualAt(k) == k <= Len(lines1) /\ k <= Len(lines2) /\ lines1[k] = lines2[k]

\* the last position of the maximal run of non-Equal positions that holds k
RECURSIVE RunEnd(_)
RunEnd(k) == IF k + 1 <= Longest /\ ~EqualAt(k + 1) THEN RunEnd(k + 1) ELSE k

PrefixAll(kind, ls) == [k \in 1..Len(ls) |-> Text(kind, ls[k])]

\* the ed-style block of the run s..e: one command line, the run's lines of
\* the first file, the separator of a change, the run's lines of the second
RunBlock(s, e) ==
    LET aPart == SubSeq(lines1, s, Min(e, Len(lines1)))
        bPart == SubSeq(lines2, s, Min(e, Len(lines2)))
        op == IF aPart = <<>> THEN "a" ELSE IF bPart = <<>> THEN "d" ELSE "c"
        aRange == IF aPart = <<>> THEN Range(Len(lines1))
                  ELSE <<s, Min(e, Len(lines1))>>
        bRange == IF bPart = <<>> THEN Range(Len(lines2))
                  ELSE <<s, Min(e, Len(lines2))>>
    IN << Cmd(aRange, op, bRange) >> \o PrefixAll("<", aPart)
         \o (IF op = "c" THEN << Separator >> ELSE <<>>)
         \o PrefixAll(">", bPart)

RECURSIVE RunBlocksFrom(_)
RunBlocksFrom(k) ==
    IF k > Longest THEN <<>>
    ELSE IF EqualAt(k) THEN RunBlocksFrom(k + 1)
    ELSE RunBlock(k, RunEnd(k)) \o RunBlocksFrom(RunEnd(k) + 1)

\* C7: the normal renderer prints one command line per maximal run of
\* non-Equal positions, with 1-indexed ranges over the whole run, then the
\* run's lines of the first file with "< ", "---" for a change, and the
\* run's lines of the second file with "> ".
NormalOneCommandPerRun ==
    (Finished /\ renderer = "normal") => stdout = RunBlocksFrom(1)

Count(S) == Cardinality(S)

Kinds(ks) == {k \in 1..Len(stdout) : stdout[k].kind \in ks}

\* the output lines of the hunk whose marker is line h
HunkBody(h) ==
    {k \in (h + 1)..Len(stdout) :
        \A m \in (h + 1)..k : stdout[m].kind # "@@"}

Changed == {k \in 1..Longest : ~EqualAt(k)}

\* the Equal positions within the context width of a change
InContext(width) ==
    {k \in 1..Longest :
        EqualAt(k) /\ \E q \in Changed : q - width <= k /\ k <= q + width}

\* the changes that start a hunk when changes whose context windows overlap
\* share one: those further than twice the width from the change before
HunkStarts(width) ==
    {q \in Changed : \A p \in Changed : p < q => q - p > 2 * width}

\* C8: the unified renderer prints the "---"/"+++" header and then hunks;
\* each hunk starts with a "@@" marker whose lengths count the hunk's lines
\* of the first file (context and "-") and of the second (context and "+");
\* every change comes with the unchanged lines within unifiedContext of it,
\* prefixed with a space; changes whose context windows overlap share a hunk.
UnifiedHunksWithContext ==
    (Finished /\ renderer = "unified") =>
        /\ Len(stdout) >= 2
        /\ stdout[1] = Header("---", Positional[1])
        /\ stdout[2] = Header("+++", Positional[2])
        /\ \A k \in 3..Len(stdout) : stdout[k].kind \in {"@@", " ", "-", "+"}
        /\ Len(stdout) >= 3 => stdout[3].kind = "@@"
        /\ \A h \in Kinds({"@@"}) :
              /\ stdout[h].la = Count(HunkBody(h) \cap Kinds({" ", "-"}))
              /\ stdout[h].lb = Count(HunkBody(h) \cap Kinds({" ", "+"}))
        /\ Count(Kinds({" "}) \ {1, 2}) = Count(InContext(flags.UnifiedContext))
        /\ Count(Kinds({"@@"})) <= Count(HunkStarts(flags.UnifiedContext))

\* the pair of row k differs: both lines exist and are unequal, or only one
\* of them exists
PairDiffers(k) ==
    \/ k <= Len(lines1) /\ k <= Len(lines2) /\ lines1[k] # lines2[k]
    \/ (k <= Len(lines1)) # (k <= Len(lines2))

\* C9: the side-by-side renderer prints max(len(A), len(B)) rows, and the
\* gutter of row k holds "|" exactly when the pair differs, also when the one
\* line present is the empty string.
SideBySideGutter ==
    (Finished /\ renderer = "side") =>
        /\ Len(stdout) = Longest
        /\ \A k \in 1..Len(stdout) :
              stdout[k].gutter = IF PairDiffers(k) THEN " | " ELSE "   "

(***************************************************************************)
(* Normalized comparison and original text.                                *)
(***************************************************************************)
\* case folding and whitespace collapsing, as the flags ask
Normalized(f, line) ==
    LET folded == IF f.IgnoreCase THEN ToLower(line) ELSE line
    IN IF f.IgnoreWhitespace THEN Join(Fields(folded), <<" ">>) ELSE folded

\* the lines k of the two files exist and are equal after normalization
NormEqualAt(k) ==
    /\ k <= Len(File1.lines) /\ k <= Len(File2.lines)
    /\ Normalized(flags, File1.lines[k]) = Normalized(flags, File2.lines[k])

Original(content) == {content.lines[k] : k \in 1..Len(content.lines)}

\* the lines of the first file the output reports as deleted or changed
ReportedOfFirst ==
    Count(Kinds({"<", "-", "- "})) + (Count(Kinds({"! "})) \div 2)

\* C10: with ignoreCase or ignoreWhitespace set and the inputs unequal, the
\* lines reported as differing are those that differ after normalization (a
\* pair equal after normalization is never reported), and every line of text
\* printed is a line of the original input.
NormalizedDecidesOriginalPrinted ==
    (TwoOperands /\ Loaded /\ Finished /\ renderer # "none"
       /\ (flags.IgnoreCase \/ flags.IgnoreWhitespace)) =>
        /\ \A k \in 1..Len(stdout) :
              /\ stdout[k].kind \in {"<", "-", "- "} =>
                    stdout[k].text \in Original(File1)
              /\ stdout[k].kind \in {">", "+", "+ "} =>
                    stdout[k].text \in Original(File2)
              /\ stdout[k].kind \in {" ", "  ", "! "} =>
                    stdout[k].text \in Original(File1) \cup Original(File2)
              /\ stdout[k].kind = "row" =>
                    /\ stdout[k].left \in
                          {PadRight(l) : l \in Original(File1) \cup {<<>>}}
                    /\ stdout[k].right \in
                          {PadRight(l) : l \in Original(File2) \cup {<<>>}}
        /\ renderer \in {"normal", "unified", "context"} =>
              ReportedOfFirst =
                 Count({k \in 1..Len(File1.lines) : ~NormEqualAt(k)})
        /\ renderer = "side" =>
              \A k \in 1..Len(stdout) : NormEqualAt(k) => stdout[k].gutter = "   "

(***************************************************************************)
(* The index walks of the renderers.  SpecWalk runs every renderer over    *)
(* files of up to MaxWalkLines lines.                                      *)
(***************************************************************************)
WalkVocab == { <<"a">>, <<"b">> }

WalkContents == {Ok(ls) : ls \in SeqsUpTo(WalkVocab, MaxWalkLines)}

InitWalk == InitWith(WalkContents, RenderFlags)

SpecWalk == InitWalk /\ [][Next]_vars

\* the texts of the output lines of the kinds ks, in the order printed
RECURSIVE TextsFrom(_, _)
TextsFrom(ks, k) ==
    IF k > Len(stdout) THEN <<>>
    ELSE (IF stdout[k].kind \in ks THEN << stdout[k].text >> ELSE <<>>)
         \o TextsFrom(ks, k + 1)

TextsOf(ks) == TextsFrom(ks, 1)

\* the lines of ls at the positions that are not Equal, in order
RECURSIVE NonEqualFrom(_, _)
NonEqualFrom(ls, k) ==
    IF k > Len(ls) THEN <<>>
    ELSE (IF EqualAt(k) THEN <<>> ELSE << ls[k] >>) \o NonEqualFrom(ls, k + 1)

NonEqualOf(ls) == NonEqualFrom(ls, 1)

EqualCount == Count({k \in 1..Longest : EqualAt(k)})

LineOrEmpty(ls, k) == IF k <= Len(ls) THEN ls[k] ELSE <<>>

\* the first sequence is a proper prefix of the second
ProperPrefix ==
    /\ Len(lines1) < Len(lines2)
    /\ SubSeq(lines2, 1, Len(lines1)) = lines1

InsertedTail == SubSeq(lines2, Len(lines1) + 1, Len(lines2))

\* a run that rendered a diff and was not cancelled has walked over every
\* position of both sequences once and in order
WalkCovers ==
    (Finished /\ renderer # "none") =>
      /\ (impl = "diff" /\ renderer \in {"normal", "unified"}) =>
            /\ i = Len(lines1) /\ j = Len(lines2)
            /\ EqualCount + Len(TextsOf({"<", "-"})) = Len(lines1)
            /\ EqualCount + Len(TextsOf({">", "+"})) = Len(lines2)
      /\ renderer = "normal" =>
            /\ TextsOf({"<"}) = NonEqualOf(lines1)
            /\ TextsOf({">"}) = NonEqualOf(lines2)
      /\ (renderer = "unified" /\ impl = "diff") =>
            /\ TextsOf({"-"}) = NonEqualOf(lines1)
            /\ TextsOf({"+"}) = NonEqualOf(lines2)
      /\ (renderer = "unified" /\ impl = "command") =>
            /\ TextsOf({" ", "-"}) = lines1
            /\ TextsOf({" ", "+"}) = lines2
      /\ renderer = "context" =>
            /\ Count(Kinds({"  ", "- "})) + (Count(Kinds({"! "})) \div 2)
                  = Len(lines1)
            /\ Count(Kinds({"  ", "+ "})) + (Count(Kinds({"! "})) \div 2)
                  = Len(lines2)
      /\ renderer = "side" =>
            /\ i = Longest /\ Len(stdout) = Longest
            /\ \A k \in 1..Len(stdout) :
                  /\ stdout[k].left = PadRight(LineOrEmpty(lines1, k))
                  /\ stdout[k].right = PadRight(LineOrEmpty(lines2, k))
      /\ ProperPrefix =>
            /\ Kinds({"<", "-", "- ", "! "}) = {}
            /\ \A k \in 1..Len(stdout) : stdout[k] # Separator
            /\ \A k \in Kinds({"cmd"}) : stdout[k].op = "a"
            /\ \A k \in Kinds({"row"}) :
                  k <= Len(lines1) => stdout[k].gutter = "   "
            /\ renderer # "side" => TextsOf({">", "+", "+ "}) = InsertedTail

\* an iteration of a renderer's loop moves no index back, moves at least one
\* forward and none past the end of its sequence
WalkAdvances ==
    /\ (impl = "diff" /\ pc \in {"normal", "unified"} /\ ~cancelled
          /\ lineCount' = lineCount + 1) =>
            /\ i' >= i /\ j' >= j /\ i' + j' > i + j
            /\ i' <= Len(lines1) /\ j' <= Len(lines2)
            /\ pc = "normal" => (i' <= i + 1 /\ j' <= j + 1)
    /\ (impl = "diff" /\ pc = "side" /\ pc' = "side" /\ ~cancelled') =>
            i' = i + 1 /\ i' <= Longest

\* C11: without cancellation, the index walk of each renderer visits every
\* position of A once and every position of B once, in increasing order;
\* every iteration advances an index, the walk ends with i = len(A) and
\* j = len(B), the positions classified on the A side total len(A) and those
\* on the B side len(B); when A is a proper prefix of B the only operations
\* reported are the insertions of B's tail lines.
WalkCoversInOrder == []WalkCovers /\ [][WalkAdvances]_vars

WalkCoversWitness ==
    /\ Finished /\ impl = "diff" /\ renderer = "normal" /\ result = "ok"
    /\ ProperPrefix /\ Len(lines1) = 1 /\ Len(lines2) = MaxWalkLines
    /\ i = Len(lines1) /\ j = Len(lines2)
    /\ TextsOf({">"}) = InsertedTail
    /\ Count(Kinds({"cmd"})) = MaxWalkLines - 1

====
